---- MODULE Spec2Model ----
(***************************************************************************)
(* gh-ghq-cd: list the repositories ghq manages, let the user pick one in  *)
(* fzf, then either cd + exec a shell, or open the pick in a new tmux      *)
(* window / pane.                                                          *)
(*                                                                         *)
(* Text values (paths, names, command lines, process output) are sequences *)
(* of one-character strings, so that prefix stripping, trimming, line and  *)
(* field splitting are computed character by character as the code does.   *)
(***************************************************************************)
EXTENDS Integers, Sequences, FiniteSets, TLC

VARIABLES
    pc,        \* position of the process in run / run_with_deps / handle_selection
    args,      \* the parsed command line (struct Args)
    env,       \* process environment: TMUX present?, value of SHELL
    mode,      \* TmuxMode derived from args
    command,   \* Option<&str>: text of -c
    use_tmux,  \* env.var("TMUX").is_some()
    rootsOut,  \* stdout of `ghq root --all`
    reposOut,  \* stdout of `ghq list --full-path`
    roots,     \* Vec<String> of root directories
    repos,     \* Vec<String> of repository paths
    items,     \* Vec<SelectableItem> handed to fzf
    fzf,       \* what happened in the finder: outcome, picked index, stdout
    selected,  \* the String select_repository returned
    muxCall,   \* the Multiplexer operation in progress
    muxPos,    \* number of external commands that operation has issued
    tmux,      \* the multiplexer server's current window: panes, focus, name
    start,     \* that window as it was when the process started
    cwd,       \* working directory of this process
    trace,     \* every external effect so far, in order
    result     \* "running", "ok", "err", or "execd" (process image replaced)

vars == <<pc, args, env, mode, command, use_tmux, rootsOut, reposOut, roots,
          repos, items, fzf, selected, muxCall, muxPos, tmux, start, cwd, trace,
          result>>

----------------------------------------------------------------------------
(* Bounds *)

MaxRoots == 2
MaxRootLen == 2
MaxRepos == 1
MaxPathLen == 2
MaxPaneCount == 3
SplitDepth == 3

----------------------------------------------------------------------------
(* Text *)

TAB == "\t"
NL == "\n"
CR == "\r"
SLASH == "/"

\* Option<T>: None is the empty tuple, Some(x) the 1-tuple.
None == <<>>
Some(x) == <<x>>

\* char::is_whitespace, restricted to the characters that occur here
IsWhitespace(c) == c \in {" ", TAB, NL, CR}

\* All texts over alphabet A of length at most n
Texts(A, n) == UNION {[1..k -> A] : k \in 0..n}

\* All absolute paths of length at most n whose later characters are in A
AbsPaths(A, n) == {<<SLASH>> \o t : t \in Texts(A, n - 1)}

\* All lists over S of length at most n
Lists(S, n) == UNION {[1..k -> S] : k \in 0..n}

\* str::strip_prefix: Some(rest) when r is a prefix of p
StripPrefix(p, r) ==
    IF Len(r) <= Len(p) /\ SubSeq(p, 1, Len(r)) = r
    THEN Some(SubSeq(p, Len(r) + 1, Len(p)))
    ELSE None

RECURSIVE TrimStartMatches(_, _)
\* str::trim_start_matches(c)
TrimStartMatches(s, c) ==
    IF s # <<>> /\ Head(s) = c THEN TrimStartMatches(Tail(s), c) ELSE s

RECURSIVE TrimStart(_)
TrimStart(s) ==
    IF s # <<>> /\ IsWhitespace(Head(s)) THEN TrimStart(Tail(s)) ELSE s

RECURSIVE TrimEnd(_)
TrimEnd(s) ==
    IF s # <<>> /\ IsWhitespace(s[Len(s)])
    THEN TrimEnd(SubSeq(s, 1, Len(s) - 1))
    ELSE s

\* str::trim: whitespace removed at both ends
Trim(s) == TrimEnd(TrimStart(s))

RECURSIVE SplitOn(_, _)
\* str::split(c): the fields between occurrences of c (always at least one)
SplitOn(s, c) ==
    IF \E i \in 1..Len(s) : s[i] = c
    THEN LET i == CHOOSE k \in 1..Len(s) :
                      s[k] = c /\ \A j \in 1..(k - 1) : s[j] # c
         IN  <<SubSeq(s, 1, i - 1)>> \o SplitOn(SubSeq(s, i + 1, Len(s)), c)
    ELSE <<s>>

\* A line that ended in a line feed: a carriage return before it is dropped
StripCR(l) ==
    IF l # <<>> /\ l[Len(l)] = CR THEN SubSeq(l, 1, Len(l) - 1) ELSE l

\* str::lines: split at line feeds; a final line feed opens no further line,
\* and only a line that was terminated loses its carriage return
Lines(s) ==
    LET f == SplitOn(s, NL)
        n == Len(f)
        g == IF f[n] = <<>> THEN SubSeq(f, 1, n - 1) ELSE f
    IN  [i \in 1..Len(g) |-> IF i < n THEN StripCR(g[i]) ELSE g[i]]

RECURSIVE Unlines(_)
\* What the tracker prints for a list: each entry followed by a line feed
Unlines(l) ==
    IF l = <<>> THEN <<>> ELSE Head(l) \o <<NL>> \o Unlines(Tail(l))

----------------------------------------------------------------------------
(* Effects *)

\* One entry of the trace. ev: "which" (presence check), "run" (ghq),
\* "fzf", "call" (an operation of trait Multiplexer), "tmux" (one tmux
\* command), "chdir", "exec".
Ev(ev, sub, flag, text, dir, n, h) ==
    [ev |-> ev, sub |-> sub, flag |-> flag, text |-> text, dir |-> dir,
     n |-> n, h |-> h, ok |-> TRUE]

\* The same effect, attempted and failed
Failed(e) == [e EXCEPT !.ok = FALSE]

\* runner.run("tmux", &[sub, flag.., text.., "-c", dir..])
Cmd(sub, flag, text, dir) == Ev("tmux", sub, flag, text, dir, 0, FALSE)

----------------------------------------------------------------------------
(* Selector *)

RECURSIVE FindMapStripPrefix(_, _)
\* roots.iter().find_map(|root| full_path.strip_prefix(root))
FindMapStripPrefix(rs, full_path) ==
    IF rs = <<>> THEN None
    ELSE IF StripPrefix(full_path, Head(rs)) # None
         THEN StripPrefix(full_path, Head(rs))
         ELSE FindMapStripPrefix(Tail(rs), full_path)

\* A display path that keeps the separators after the root
DisplayPathKeepSlash(rs, full_path) ==
    LET m == FindMapStripPrefix(rs, full_path)
    IN  IF m # None THEN m[1] ELSE full_path

\* The display label of one repository path
DisplayPath(rs, full_path) ==
    LET m == FindMapStripPrefix(rs, full_path)
    IN  IF m # None THEN TrimStartMatches(m[1], SLASH) ELSE full_path

\* The SelectableItem list built from the repository paths
BuildItems(rs, ps) ==
    [i \in 1..Len(ps) |-> [display |-> DisplayPath(rs, ps[i]), value |-> ps[i]]]

\* writeln!(stdin, "{}\t{}", item.display, item.value), without the line feed
FzfLine(item) == item.display \o <<TAB>> \o item.value

\* run_fzf reporting a non-zero exit of fzf as an error
RunFzfStrict(success, stdout) ==
    IF ~success THEN [ok |-> FALSE, val |-> None]
    ELSE LET sel == Trim(stdout)
         IN  IF sel = <<>> THEN [ok |-> TRUE, val |-> None]
             ELSE LET f == SplitOn(sel, TAB)
                  IN  [ok |-> TRUE,
                       val |-> Some(IF Len(f) >= 2 THEN f[2] ELSE sel)]

\* run_fzf once fzf has been waited for: Ok(None) or Ok(Some(value))
RunFzfResult(success, stdout) ==
    IF ~success THEN [ok |-> TRUE, val |-> None]
    ELSE LET sel == Trim(stdout)
         IN  IF sel = <<>> THEN [ok |-> TRUE, val |-> None]
             ELSE LET f == SplitOn(sel, TAB)
                  IN  [ok |-> TRUE,
                       val |-> Some(IF Len(f) >= 2 THEN f[2] ELSE sel)]

\* Option::unwrap_or_default on Option<String>
UnwrapOrDefault(o) == IF o = None THEN <<>> ELSE o[1]

NoFzf == [outcome |-> "none", pick |-> 0, stdout |-> <<>>]

----------------------------------------------------------------------------
(* Command line *)

CurrentPane == [kind |-> "CurrentPane", count |-> 0, horizontal |-> FALSE]
NewWindow(c, h) == [kind |-> "NewWindow", count |-> c, horizontal |-> h]
NewPane(c, h) == [kind |-> "NewPane", count |-> c, horizontal |-> h]

\* A mode that does not know the deprecated flag -n
tmux_mode_without_deprecated(a) ==
    IF a.new_pane # None
    THEN IF a.new_window
         THEN NewWindow(a.new_pane[1], a.horizontal)
         ELSE NewPane(a.new_pane[1], a.horizontal)
    ELSE IF a.new_window THEN NewWindow(0, FALSE) ELSE CurrentPane

\* Args::tmux_mode
tmux_mode(a) ==
    LET is_new_window == a.new_window \/ a.deprecated_new_window
    IN  IF a.new_pane # None
        THEN IF is_new_window
             THEN NewWindow(a.new_pane[1], a.horizontal)
             ELSE NewPane(a.new_pane[1], a.horizontal)
        ELSE IF is_new_window THEN NewWindow(0, FALSE) ELSE CurrentPane

\* A flag check that lets -c with -p 2 pass when a new window is asked for
InvalidFlagCombinationUnlessWindow(a) ==
    /\ a.new_pane # None /\ a.new_pane[1] >= 2 /\ a.command # None
    /\ ~(a.new_window \/ a.deprecated_new_window)

\* run: -c cannot be used with multiple panes (-p 2)
InvalidFlagCombination(a) ==
    a.new_pane # None /\ a.new_pane[1] >= 2 /\ a.command # None

\* A shell path that ignores SHELL
shell_path_default(e) == <<"/", "b", "i", "n", "/", "s", "h">>

\* env.var("SHELL").unwrap_or_else(|| String::from("/bin/sh"))
shell_path(e) ==
    IF e.SHELL # None THEN e.SHELL[1] ELSE <<"/", "b", "i", "n", "/", "s", "h">>

\* Path::file_name: the last component when it is a normal one. Empty and
\* "." segments are no components; a final ".." has no file name.
FileName(path) ==
    LET segs == SelectSeq(SplitOn(path, SLASH),
                          LAMBDA g : g # <<>> /\ g # <<".">>)
    IN  IF segs = <<>> \/ segs[Len(segs)] = <<".", ".">>
        THEN None
        ELSE Some(segs[Len(segs)])

\* A window name that is always the whole path
repo_name_whole(sel) == sel

\* handle_selection: repo_name
repo_name(sel) == IF FileName(sel) # None THEN FileName(sel)[1] ELSE sel

\* An effective mode that does not look at the session
effective_mode_unchecked(m, in_tmux) == m

\* handle_selection: effective_mode
effective_mode(m, in_tmux) == IF in_tmux THEN m ELSE CurrentPane

\* A test for the empty selection that never finds it empty
is_empty_never(sel) == FALSE

\* run_with_deps: selected.is_empty()
is_empty(sel) == sel = <<>>

----------------------------------------------------------------------------
(* Multiplexer: the commands each operation of TmuxClient issues, in order *)

\* WindowConfig::new; utf8 is whether start_dir.to_str() succeeds
WindowConfig(name, start_dir, utf8) ==
    [name |-> name, start_dir |-> start_dir, utf8 |-> utf8]

NoCfg == WindowConfig(<<>>, <<>>, TRUE)

\* Titling that visits the second pane of the split without titling it
TitleFirstOnly(cfg, horizontal) ==
    LET nav_to_first == IF horizontal THEN "-L" ELSE "-U"
        nav_to_second == IF horizontal THEN "-R" ELSE "-D"
    IN  << Cmd("select-pane", nav_to_first, <<>>, <<>>),
           Cmd("select-pane", "-T", cfg.name, <<>>),
           Cmd("select-pane", nav_to_second, <<>>, <<>>),
           Cmd("select-pane", nav_to_first, <<>>, <<>>) >>

\* The two panes of a split are titled, then focus returns to the first
TitleBoth(cfg, horizontal) ==
    LET nav_to_first == IF horizontal THEN "-L" ELSE "-U"
        nav_to_second == IF horizontal THEN "-R" ELSE "-D"
    IN  << Cmd("select-pane", nav_to_first, <<>>, <<>>),
           Cmd("select-pane", "-T", cfg.name, <<>>),
           Cmd("select-pane", nav_to_second, <<>>, <<>>),
           Cmd("select-pane", "-T", cfg.name, <<>>),
           Cmd("select-pane", nav_to_first, <<>>, <<>>) >>

\* new_window equalizing the layout right after the split
TmuxNewWindowEqualizeEarly(cfg, pane_count, horizontal) ==
    << Cmd("new-window", "-n", cfg.name, cfg.start_dir) >> \o
    ( IF pane_count >= 2
      THEN LET split == IF horizontal THEN "-h" ELSE "-v"
           IN  << Cmd("split-window", split, <<>>, cfg.start_dir),
                  Cmd("select-layout", "-E", <<>>, <<>>) >> \o
               TitleBoth(cfg, horizontal)
      ELSE <<>> )

\* new_window splitting from a pane count of 1 on
TmuxNewWindowSplitAtOne(cfg, pane_count, horizontal) ==
    << Cmd("new-window", "-n", cfg.name, cfg.start_dir) >> \o
    ( IF pane_count >= 1
      THEN LET split == IF horizontal THEN "-h" ELSE "-v"
           IN  << Cmd("split-window", split, <<>>, cfg.start_dir) >> \o
               TitleBoth(cfg, horizontal) \o
               << Cmd("select-layout", "-E", <<>>, <<>>) >>
      ELSE <<>> )

\* TmuxClient::new_window
TmuxNewWindow(cfg, pane_count, horizontal) ==
    << Cmd("new-window", "-n", cfg.name, cfg.start_dir) >> \o
    ( IF pane_count >= 2
      THEN LET split == IF horizontal THEN "-h" ELSE "-v"
           IN  << Cmd("split-window", split, <<>>, cfg.start_dir) >> \o
               TitleBoth(cfg, horizontal) \o
               << Cmd("select-layout", "-E", <<>>, <<>>) >>
      ELSE <<>> )

\* new_pane whose primary split is along new_window's axis
TmuxNewPanePrimaryAsWindow(cfg, pane_count, horizontal) ==
    LET primary_split == IF horizontal THEN "-hf" ELSE "-vf"
    IN  << Cmd("split-window", primary_split, <<>>, cfg.start_dir),
           Cmd("select-pane", "-T", cfg.name, <<>>) >> \o
        ( IF pane_count >= 2
          THEN LET secondary_split == IF horizontal THEN "-h" ELSE "-v"
               IN  << Cmd("split-window", secondary_split, <<>>, cfg.start_dir) >>
                   \o TitleBoth(cfg, horizontal)
          ELSE <<>> ) \o
        << Cmd("select-layout", "-E", <<>>, <<>>) >>

\* new_pane equalizing the layout only after a secondary split
TmuxNewPaneEqualizeIfSplit(cfg, pane_count, horizontal) ==
    LET primary_split == IF horizontal THEN "-vf" ELSE "-hf"
    IN  << Cmd("split-window", primary_split, <<>>, cfg.start_dir),
           Cmd("select-pane", "-T", cfg.name, <<>>) >> \o
        ( IF pane_count >= 2
          THEN LET secondary_split == IF horizontal THEN "-h" ELSE "-v"
               IN  << Cmd("split-window", secondary_split, <<>>, cfg.start_dir) >>
                   \o TitleBoth(cfg, horizontal)
                   \o << Cmd("select-layout", "-E", <<>>, <<>>) >>
          ELSE <<>> )

\* new_pane whose secondary split ignores the orientation
TmuxNewPaneFixedSecondary(cfg, pane_count, horizontal) ==
    LET primary_split == IF horizontal THEN "-vf" ELSE "-hf"
    IN  << Cmd("split-window", primary_split, <<>>, cfg.start_dir),
           Cmd("select-pane", "-T", cfg.name, <<>>) >> \o
        ( IF pane_count >= 2
          THEN << Cmd("split-window", "-v", <<>>, cfg.start_dir) >>
               \o TitleBoth(cfg, horizontal)
          ELSE <<>> ) \o
        << Cmd("select-layout", "-E", <<>>, <<>>) >>

\* TmuxClient::new_pane
TmuxNewPane(cfg, pane_count, horizontal) ==
    LET primary_split == IF horizontal THEN "-vf" ELSE "-hf"
    IN  << Cmd("split-window", primary_split, <<>>, cfg.start_dir),
           Cmd("select-pane", "-T", cfg.name, <<>>) >> \o
        ( IF pane_count >= 2
          THEN LET secondary_split == IF horizontal THEN "-h" ELSE "-v"
               IN  << Cmd("split-window", secondary_split, <<>>, cfg.start_dir) >>
                   \o TitleBoth(cfg, horizontal)
          ELSE <<>> ) \o
        << Cmd("select-layout", "-E", <<>>, <<>>) >>

\* TmuxClient::rename_window
TmuxRenameWindow(name) == << Cmd("rename-window", "", name, <<>>) >>

\* TmuxClient::send_keys
TmuxSendKeys(keys) == << Cmd("send-keys", "Enter", keys, <<>>) >>

\* runner.run("zellij", &["action", sub, flag.., text.., "--cwd", dir..])
ZCmd(sub, flag, text, dir) == Ev("zellij", sub, flag, text, dir, 0, FALSE)

\* ZellijClient::new_window
ZellijNewWindow(cfg, pane_count, horizontal) ==
    << ZCmd("new-tab", "--name", cfg.name, cfg.start_dir),
       ZCmd("rename-pane", "", cfg.name, <<>>) >> \o
    ( IF pane_count >= 2
      THEN LET direction == IF horizontal THEN "right" ELSE "down"
               focus_direction == IF horizontal THEN "left" ELSE "up"
           IN  << ZCmd("new-pane", direction, <<>>, cfg.start_dir),
                  ZCmd("rename-pane", "", cfg.name, <<>>),
                  ZCmd("move-focus", focus_direction, <<>>, <<>>) >>
      ELSE <<>> )

\* ZellijClient::new_pane
ZellijNewPane(cfg, pane_count, horizontal) ==
    LET primary_direction == IF horizontal THEN "down" ELSE "right"
    IN  << ZCmd("new-pane", primary_direction, <<>>, cfg.start_dir),
           ZCmd("rename-pane", "", cfg.name, <<>>) >> \o
        ( IF pane_count >= 2
          THEN LET secondary_direction == IF horizontal THEN "right" ELSE "down"
                   focus_direction == IF horizontal THEN "left" ELSE "up"
               IN  << ZCmd("new-pane", secondary_direction, <<>>, cfg.start_dir),
                      ZCmd("rename-pane", "", cfg.name, <<>>),
                      ZCmd("move-focus", focus_direction, <<>>, <<>>) >>
          ELSE <<>> )

\* ZellijClient::rename_window
ZellijRenameWindow(name) == << ZCmd("rename-tab", "", name, <<>>) >>

\* ZellijClient::send_keys: the characters, then byte 10 (Enter)
ZellijSendKeys(keys) ==
    << ZCmd("write-chars", "", keys, <<>>), ZCmd("write", "10", <<>>, <<>>) >>

\* A call of one operation of trait Multiplexer on a backend
Call(backend, op, cfg, n, h) ==
    [backend |-> backend, op |-> op, cfg |-> cfg, n |-> n, h |-> h]

NoCall == Call("noop", "none", NoCfg, 0, FALSE)

\* The trace entry of a call
CallEv(c) == Ev("call", c.op, c.backend, c.cfg.name, c.cfg.start_dir, c.n, c.h)

\* The command sequence of a call: NoopClient issues nothing
CmdsOf(c) ==
    IF c.backend = "noop" THEN <<>>
    ELSE IF c.backend = "zellij"
    THEN CASE c.op = "new_window" -> ZellijNewWindow(c.cfg, c.n, c.h)
           [] c.op = "new_pane" -> ZellijNewPane(c.cfg, c.n, c.h)
           [] c.op = "rename_window" -> ZellijRenameWindow(c.cfg.name)
           [] c.op = "send_keys" -> ZellijSendKeys(c.cfg.name)
           [] OTHER -> <<>>
    ELSE CASE c.op = "new_window" -> TmuxNewWindow(c.cfg, c.n, c.h)
           [] c.op = "new_pane" -> TmuxNewPane(c.cfg, c.n, c.h)
           [] c.op = "rename_window" -> TmuxRenameWindow(c.cfg.name)
           [] c.op = "send_keys" -> TmuxSendKeys(c.cfg.name)
           [] OTHER -> <<>>

\* start_dir.to_str().context(..)? : only the two creating operations
NeedsUtf8(c) == c.backend # "noop" /\ c.op \in {"new_window", "new_pane"}

----------------------------------------------------------------------------
(* The tmux server, as far as the commands above act on it: the panes of   *)
(* the current window as rectangles of a W x W grid, the focused pane, and *)
(* the window name. A pane created since the operation began has new set.  *)

\* Width and height of a window, in cells
W == 2 ^ SplitDepth

\* The title tmux gives a pane nobody titled (the host name)
DefaultTitle == <<"h", "o", "s", "t">>

HomeDir == <<"~">>

Pane(x, y, w, h, dir, new) ==
    [x |-> x, y |-> y, w |-> w, h |-> h, title |-> DefaultTitle, dir |-> dir,
     new |-> new, keys |-> <<>>]

TmuxState(panes, active, name, even) ==
    [panes |-> panes, active |-> active, name |-> name, even |-> even]

\* Window layouts the user may be in when the tool starts
Layouts ==
    { TmuxState(<<Pane(0, 0, W, W, HomeDir, FALSE)>>, 1, <<"s", "h">>, TRUE),
      TmuxState(<<Pane(0, 0, W \div 2, W, HomeDir, FALSE),
                  Pane(W \div 2, 0, W \div 2, W, HomeDir, FALSE)>>,
                2, <<"s", "h">>, TRUE),
      TmuxState(<<Pane(0, 0, W, W \div 2, HomeDir, FALSE),
                  Pane(0, W \div 2, W, W \div 2, HomeDir, FALSE)>>,
                1, <<"s", "h">>, TRUE) }

\* Outside tmux there is no server to talk to
NoTmux == TmuxState(<<>>, 0, <<>>, TRUE)

\* split-window -h / -v: the focused pane is halved, the new pane takes the
\* right / lower half and the focus. -hf / -vf: the new pane spans the full
\* window height / width at the right / bottom, all others are squeezed.
SplitWindow(t, flag, dir) ==
    LET p == t.panes[t.active]
        n == Len(t.panes) + 1
        halfW(q) == [q EXCEPT !.x = q.x \div 2, !.w = q.w \div 2]
        halfH(q) == [q EXCEPT !.y = q.y \div 2, !.h = q.h \div 2]
        evenW == \A i \in 1..Len(t.panes) :
                     t.panes[i].w >= 2 /\ t.panes[i].w % 2 = 0 /\ t.panes[i].x % 2 = 0
        evenH == \A i \in 1..Len(t.panes) :
                     t.panes[i].h >= 2 /\ t.panes[i].h % 2 = 0 /\ t.panes[i].y % 2 = 0
    IN  CASE flag = "-h" /\ p.w >= 2 ->
               { TmuxState(
                   Append([t.panes EXCEPT ![t.active].w = p.w \div 2],
                          Pane(p.x + p.w \div 2, p.y, p.w - p.w \div 2, p.h, dir, TRUE)),
                   n, t.name, FALSE) }
          [] flag = "-v" /\ p.h >= 2 ->
               { TmuxState(
                   Append([t.panes EXCEPT ![t.active].h = p.h \div 2],
                          Pane(p.x, p.y + p.h \div 2, p.w, p.h - p.h \div 2, dir, TRUE)),
                   n, t.name, FALSE) }
          [] flag = "-hf" /\ evenW ->
               { TmuxState(
                   Append([i \in 1..Len(t.panes) |-> halfW(t.panes[i])],
                          Pane(W \div 2, 0, W \div 2, W, dir, TRUE)),
                   n, t.name, FALSE) }
          [] flag = "-vf" /\ evenH ->
               { TmuxState(
                   Append([i \in 1..Len(t.panes) |-> halfH(t.panes[i])],
                          Pane(0, W \div 2, W, W \div 2, dir, TRUE)),
                   n, t.name, FALSE) }
          [] OTHER -> {}

\* select-pane -L / -R / -U / -D: focus moves to a pane that touches the
\* focused one on that side (wrapping at the window edge); tmux picks one
\* of them when there are several.
SelectPaneDir(t, flag) ==
    LET p == t.panes[t.active]
        overX(q) == q.x < p.x + p.w /\ p.x < q.x + q.w
        overY(q) == q.y < p.y + p.h /\ p.y < q.y + q.h
        hit(q) ==
            CASE flag = "-U" -> overX(q) /\ q.y + q.h = (IF p.y = 0 THEN W ELSE p.y)
              [] flag = "-D" -> overX(q) /\ q.y = (IF p.y + p.h = W THEN 0 ELSE p.y + p.h)
              [] flag = "-L" -> overY(q) /\ q.x + q.w = (IF p.x = 0 THEN W ELSE p.x)
              [] flag = "-R" -> overY(q) /\ q.x = (IF p.x + p.w = W THEN 0 ELSE p.x + p.w)
              [] OTHER -> FALSE
    IN  { [t EXCEPT !.active = i] : i \in {j \in 1..Len(t.panes) : hit(t.panes[j])} }

\* The states tmux may be in after carrying out command c in state t;
\* none when tmux cannot carry it out (no space, no pane)
TmuxApply(t, c) ==
    CASE c.sub = "new-window" ->
           { TmuxState(<<Pane(0, 0, W, W, c.dir, TRUE)>>, 1, c.text, TRUE) }
      [] c.sub = "split-window" /\ t.active > 0 -> SplitWindow(t, c.flag, c.dir)
      [] c.sub = "select-pane" /\ c.flag = "-T" /\ t.active > 0 ->
           { [t EXCEPT !.panes[t.active].title = c.text] }
      [] c.sub = "select-pane" /\ t.active > 0 -> SelectPaneDir(t, c.flag)
      [] c.sub = "select-layout" -> { [t EXCEPT !.even = TRUE] }
      [] c.sub = "rename-window" -> { [t EXCEPT !.name = c.text] }
      [] c.sub = "send-keys" /\ t.active > 0 ->
           { [t EXCEPT !.panes[t.active].keys = Append(@, c.text)] }
      [] OTHER -> {}

\* move-focus left / right / up / down: focus moves to a pane that touches
\* the focused one on that side; at the edge of the tab it stays
MoveFocus(t, flag) ==
    LET p == t.panes[t.active]
        overX(q) == q.x < p.x + p.w /\ p.x < q.x + q.w
        overY(q) == q.y < p.y + p.h /\ p.y < q.y + q.h
        hit(q) ==
            CASE flag = "up" -> overX(q) /\ q.y + q.h = p.y
              [] flag = "down" -> overX(q) /\ q.y = p.y + p.h
              [] flag = "left" -> overY(q) /\ q.x + q.w = p.x
              [] flag = "right" -> overY(q) /\ q.x = p.x + p.w
              [] OTHER -> FALSE
        to == {j \in 1..Len(t.panes) : hit(t.panes[j])}
    IN  IF to = {} THEN {t} ELSE { [t EXCEPT !.active = i] : i \in to }

\* The states zellij may be in after carrying out action c in state t: a
\* tab is a window, new-pane --direction halves the focused pane and
\* focuses the new one, rename-pane titles the focused pane, write-chars
\* types into it and write 10 submits what was typed
ZellijApply(t, c) ==
    CASE c.sub = "new-tab" ->
           { TmuxState(<<Pane(0, 0, W, W, c.dir, TRUE)>>, 1, c.text, TRUE) }
      [] c.sub = "new-pane" /\ t.active > 0 ->
           SplitWindow(t, IF c.flag = "right" THEN "-h" ELSE "-v", c.dir)
      [] c.sub = "rename-pane" /\ t.active > 0 ->
           { [t EXCEPT !.panes[t.active].title = c.text] }
      [] c.sub = "move-focus" /\ t.active > 0 -> MoveFocus(t, c.flag)
      [] c.sub = "rename-tab" -> { [t EXCEPT !.name = c.text] }
      [] c.sub = "write-chars" /\ t.active > 0 ->
           { [t EXCEPT !.panes[t.active].keys = Append(@, c.text)] }
      [] c.sub = "write" /\ t.active > 0 -> {t}
      [] OTHER -> {}

\* The server a command is addressed to carries it out
Apply(t, c) == IF c.ev = "zellij" THEN ZellijApply(t, c) ELSE TmuxApply(t, c)

----------------------------------------------------------------------------
(* Inputs *)

\* Characters of root directories and of repository paths (both absolute)
RootChars == {SLASH, "a"}
PathChars == {SLASH, "a", TAB}

\* struct Args as clap accepts it: -p takes 1 or 2, -V and -H require -p
\* and exclude each other
ArgsSet ==
    { a \in [new_window : BOOLEAN, deprecated_new_window : BOOLEAN,
             new_pane : {None, Some(1), Some(2)},
             vertical : BOOLEAN, horizontal : BOOLEAN,
             command : {None, Some(<<"l", "s">>)}] :
        /\ (a.vertical \/ a.horizontal) => a.new_pane # None
        /\ ~(a.vertical /\ a.horizontal) }

NoArgs ==
    [new_window |-> FALSE, deprecated_new_window |-> FALSE, new_pane |-> None,
     vertical |-> FALSE, horizontal |-> FALSE, command |-> None]

Envs == [TMUX : BOOLEAN, SHELL : {None, Some(<<"z", "s", "h">>)}]

\* What ghq reports in a whole run of the tool
AppRoots == << <<"/", "r">> >>
AppRepoLists ==
    { <<>>,
      << <<"/", "r", "/", "o", "/", "a">> >>,
      << <<"/", "r", "/", "b">>, <<"/", "r", "/", "c", "/", ".", ".">> >>,
      << <<"/">> >> }

\* Arguments of a direct call of new_window / new_pane
DirectCalls ==
    { Call("tmux", op, WindowConfig(name, <<"/", "r", "/", name[1]>>, utf8), n, h) :
        op \in {"new_window", "new_pane"}, name \in {<<"a">>, <<"b">>},
        utf8 \in BOOLEAN, n \in 0..MaxPaneCount, h \in BOOLEAN }

\* The same calls on ZellijClient
ZellijCalls == { [c EXCEPT !.backend = "zellij"] : c \in DirectCalls }

----------------------------------------------------------------------------
(* Initial states *)

\* The tool is started from a shell
Init ==
    /\ pc = "run"
    /\ args \in ArgsSet
    /\ env \in Envs
    /\ mode = CurrentPane
    /\ command = None
    /\ use_tmux = FALSE
    /\ rootsOut = Unlines(AppRoots)
    /\ reposOut \in {Unlines(l) : l \in AppRepoLists}
    /\ roots = <<>>
    /\ repos = <<>>
    /\ items = <<>>
    /\ fzf = NoFzf
    /\ selected = <<>>
    /\ muxCall = NoCall
    /\ muxPos = 0
    /\ tmux \in (IF env.TMUX THEN Layouts ELSE {NoTmux})
    /\ start = tmux
    /\ cwd = HomeDir
    /\ trace = <<>>
    /\ result = "running"

\* select_repository is entered, with any output of ghq within the bounds
InitSel ==
    /\ pc = "ghq_roots"
    /\ args = NoArgs
    /\ env = [TMUX |-> FALSE, SHELL |-> None]
    /\ mode = CurrentPane
    /\ command = None
    /\ use_tmux = FALSE
    /\ rootsOut \in {Unlines(l) : l \in Lists(AbsPaths(RootChars, MaxRootLen), MaxRoots)}
    /\ reposOut \in {Unlines(l) : l \in Lists(AbsPaths(PathChars, MaxPathLen), MaxRepos)}
    /\ roots = <<>>
    /\ repos = <<>>
    /\ items = <<>>
    /\ fzf = NoFzf
    /\ selected = <<>>
    /\ muxCall = NoCall
    /\ muxPos = 0
    /\ tmux = NoTmux
    /\ start = tmux
    /\ cwd = HomeDir
    /\ trace = <<>>
    /\ result = "running"

\* new_window / new_pane of TmuxClient is called with any arguments
InitMux ==
    /\ pc = "mux"
    /\ args = NoArgs
    /\ env = [TMUX |-> TRUE, SHELL |-> None]
    /\ muxCall \in DirectCalls
    /\ mode = (IF muxCall.op = "new_window"
               THEN NewWindow(muxCall.n, muxCall.h)
               ELSE NewPane(muxCall.n, muxCall.h))
    /\ command = None
    /\ use_tmux = TRUE
    /\ rootsOut = <<>>
    /\ reposOut = <<>>
    /\ roots = <<>>
    /\ repos = <<>>
    /\ items = <<>>
    /\ fzf = NoFzf
    /\ selected = muxCall.cfg.start_dir
    /\ muxPos = 0
    /\ tmux \in Layouts
    /\ start = tmux
    /\ cwd = HomeDir
    /\ trace = <<CallEv(muxCall)>>
    /\ result = "running"

\* new_window / new_pane of ZellijClient is called with any arguments
InitZellij ==
    /\ pc = "mux"
    /\ args = NoArgs
    /\ env = [TMUX |-> FALSE, SHELL |-> None]
    /\ muxCall \in ZellijCalls
    /\ mode = (IF muxCall.op = "new_window"
               THEN NewWindow(muxCall.n, muxCall.h)
               ELSE NewPane(muxCall.n, muxCall.h))
    /\ command = None
    /\ use_tmux = FALSE
    /\ rootsOut = <<>>
    /\ reposOut = <<>>
    /\ roots = <<>>
    /\ repos = <<>>
    /\ items = <<>>
    /\ fzf = NoFzf
    /\ selected = muxCall.cfg.start_dir
    /\ muxPos = 0
    /\ tmux \in Layouts
    /\ start = tmux
    /\ cwd = HomeDir
    /\ trace = <<CallEv(muxCall)>>
    /\ result = "running"

----------------------------------------------------------------------------
(* Steps *)

argVars == <<args, env, mode, command, use_tmux, start>>
ghqVars == <<rootsOut, reposOut>>
selVars == <<roots, repos, items, fzf, selected>>
muxVars == <<muxCall, muxPos, tmux>>

\* An error reaches the top level: the run is over
Fail ==
    /\ pc' = "done"
    /\ result' = "err"

\* run: the flag check, then the environment probe and the mode
Run ==
    /\ pc = "run"
    /\ IF InvalidFlagCombination(args)
       THEN Fail /\ UNCHANGED <<mode, command, use_tmux>>
       ELSE /\ use_tmux' = env.TMUX
            /\ mode' = tmux_mode(args)
            /\ command' = args.command
            /\ pc' = "check_ghq"
            /\ result' = result
    /\ UNCHANGED <<args, env, start, ghqVars, selVars, muxVars, cwd, trace>>

\* run_with_deps: checker.check("ghq")?
CheckGhq ==
    /\ pc = "check_ghq"
    /\ \E found \in BOOLEAN :
         IF found
         THEN /\ trace' = Append(trace, Ev("which", "ghq", "", <<>>, <<>>, 0, FALSE))
              /\ pc' = "check_fzf"
              /\ result' = result
         ELSE /\ trace' = Append(trace, Failed(Ev("which", "ghq", "", <<>>, <<>>, 0, FALSE)))
              /\ Fail
    /\ UNCHANGED <<argVars, ghqVars, selVars, muxVars, cwd>>

\* run_with_deps: checker.check("fzf")?
CheckFzf ==
    /\ pc = "check_fzf"
    /\ \E found \in BOOLEAN :
         IF found
         THEN /\ trace' = Append(trace, Ev("which", "fzf", "", <<>>, <<>>, 0, FALSE))
              /\ pc' = "ghq_roots"
              /\ result' = result
         ELSE /\ trace' = Append(trace, Failed(Ev("which", "fzf", "", <<>>, <<>>, 0, FALSE)))
              /\ Fail
    /\ UNCHANGED <<argVars, ghqVars, selVars, muxVars, cwd>>

\* select_repository: ghq::roots(runner)?
GhqRoots ==
    /\ pc = "ghq_roots"
    /\ \E ok \in BOOLEAN :
         IF ok
         THEN /\ trace' = Append(trace, Ev("run", "ghq", "root --all", <<>>, <<>>, 0, FALSE))
              /\ roots' = Lines(rootsOut)
              /\ pc' = "ghq_list"
              /\ result' = result
         ELSE /\ trace' = Append(trace, Failed(Ev("run", "ghq", "root --all", <<>>, <<>>, 0, FALSE)))
              /\ roots' = roots
              /\ Fail
    /\ UNCHANGED <<argVars, ghqVars, repos, items, fzf, selected, muxVars, cwd>>

\* select_repository: ghq::list_full_path(runner)?
GhqList ==
    /\ pc = "ghq_list"
    /\ \E ok \in BOOLEAN :
         IF ok
         THEN /\ trace' = Append(trace, Ev("run", "ghq", "list --full-path", <<>>, <<>>, 0, FALSE))
              /\ repos' = Lines(reposOut)
              /\ pc' = "fzf"
              /\ result' = result
         ELSE /\ trace' = Append(trace, Failed(Ev("run", "ghq", "list --full-path", <<>>, <<>>, 0, FALSE)))
              /\ repos' = repos
              /\ Fail
    /\ UNCHANGED <<argVars, ghqVars, roots, items, fzf, selected, muxVars, cwd>>

\* What can happen in run_fzf with these items: fzf does not start, a write
\* to its stdin fails, waiting for it fails, the user aborts (exit 130),
\* nothing matches (exit 1), or the user confirms line i, which fzf prints
FzfOutcomes(its) ==
    { [outcome |-> o, pick |-> 0, stdout |-> <<>>] :
        o \in {"spawn_err", "wait_err", "abort", "no_match"} }
    \cup { [outcome |-> "write_err", pick |-> 0, stdout |-> <<>>] : i \in 1..Len(its) }
    \cup { [outcome |-> "accept", pick |-> i, stdout |-> FzfLine(its[i]) \o <<NL>>] :
             i \in 1..Len(its) }

\* select_repository: the items, run_fzf, and the returned String. (The
\* preview viewer only changes what the preview pane shows.)
Fzf ==
    /\ pc = "fzf"
    /\ LET its == BuildItems(roots, repos)
       IN  /\ items' = its
           /\ \E o \in FzfOutcomes(its) :
                LET e == Ev("fzf", o.outcome, "", <<>>, <<>>, Len(its), FALSE)
                    r == RunFzfResult(o.outcome = "accept", o.stdout)
                IN  /\ fzf' = o
                    /\ IF o.outcome \in {"spawn_err", "write_err", "wait_err"} \/ ~r.ok
                       THEN /\ trace' = Append(trace, Failed(e))
                            /\ selected' = selected
                            /\ Fail
                       ELSE /\ trace' = Append(trace, e)
                            /\ selected' = UnwrapOrDefault(r.val)
                            /\ pc' = "selected"
                            /\ result' = result
    /\ UNCHANGED <<argVars, ghqVars, roots, repos, muxVars, cwd>>

\* run_with_deps after the selection, and handle_selection up to its match
HandleSelection ==
    /\ pc = "selected"
    /\ IF is_empty(selected)
       THEN /\ pc' = "done"
            /\ result' = "ok"
            /\ UNCHANGED <<muxCall, muxPos, trace>>
       ELSE LET em == effective_mode(mode, use_tmux)
                cfg == WindowConfig(repo_name(selected), selected, TRUE)
                backend == IF use_tmux THEN "tmux" ELSE "noop"
                op == IF em.kind = "NewWindow" THEN "new_window" ELSE "new_pane"
                c == Call(backend, op, cfg, em.count, em.horizontal)
            IN  IF em.kind = "CurrentPane"
                THEN /\ pc' = "chdir"
                     /\ UNCHANGED <<muxCall, muxPos, trace, result>>
                ELSE /\ pc' = "mux"
                     /\ muxCall' = c
                     /\ muxPos' = 0
                     /\ trace' = Append(trace, CallEv(c))
                     /\ result' = result
    /\ UNCHANGED <<argVars, ghqVars, selVars, tmux, cwd>>

\* Going from the directory change straight to the shell
AfterChdirNoRename(in_tmux) == "exec"

\* What handle_selection does after the directory change
AfterChdir(in_tmux) == IF in_tmux THEN "rename" ELSE "exec"

\* handle_selection, CurrentPane: env.set_current_dir(selected)?
SetCurrentDir ==
    /\ pc = "chdir"
    /\ \E ok \in BOOLEAN :
         LET e == Ev("chdir", "", "", <<>>, selected, 0, FALSE)
         IN  IF ok
             THEN /\ trace' = Append(trace, e)
                  /\ cwd' = selected
                  /\ pc' = AfterChdir(use_tmux)
                  /\ result' = result
             ELSE /\ trace' = Append(trace, Failed(e))
                  /\ cwd' = cwd
                  /\ Fail
    /\ UNCHANGED <<argVars, ghqVars, selVars, muxVars>>

\* handle_selection, CurrentPane: mux.rename_window(repo_name) is called
RenameWindow ==
    /\ pc = "rename"
    /\ LET c == Call(IF use_tmux THEN "tmux" ELSE "noop", "rename_window",
                     WindowConfig(repo_name(selected), <<>>, TRUE), 0, FALSE)
       IN  /\ muxCall' = c
           /\ muxPos' = 0
           /\ trace' = Append(trace, CallEv(c))
    /\ pc' = "mux"
    /\ UNCHANGED <<argVars, ghqVars, selVars, tmux, cwd, result>>

\* handle_selection, CurrentPane: shell::exec(&shell_path)?
ExecShell ==
    /\ pc = "exec"
    /\ \E ok \in BOOLEAN :
         LET e == Ev("exec", "", "", shell_path(env), <<>>, 0, FALSE)
         IN  IF ok
             THEN /\ trace' = Append(trace, e)
                  /\ pc' = "done"
                  /\ result' = "execd"
             ELSE /\ trace' = Append(trace, Failed(e))
                  /\ Fail
    /\ UNCHANGED <<argVars, ghqVars, selVars, muxVars, cwd>>

\* new_window / new_pane: start_dir is not valid UTF-8
MuxInvalidPath ==
    /\ pc = "mux"
    /\ muxPos = 0
    /\ NeedsUtf8(muxCall) /\ ~muxCall.cfg.utf8
    /\ Fail
    /\ UNCHANGED <<argVars, ghqVars, selVars, muxVars, cwd, trace>>

\* The operation in progress may issue its next command
MuxReady ==
    /\ pc = "mux"
    /\ NeedsUtf8(muxCall) => muxCall.cfg.utf8
    /\ muxPos < Len(CmdsOf(muxCall))

\* runner.run("tmux" / "zellij", ..)? succeeds
MuxCmd ==
    /\ MuxReady
    /\ LET c == CmdsOf(muxCall)[muxPos + 1]
       IN  /\ \E t \in Apply(tmux, c) : tmux' = t
           /\ trace' = Append(trace, c)
    /\ muxPos' = muxPos + 1
    /\ UNCHANGED <<argVars, ghqVars, selVars, muxCall, cwd, pc, result>>

\* A failed command that is run again
AfterMuxErrorRetry(op) == "mux"

\* A failed rename that is dropped: handle_selection goes on to the shell
AfterMuxErrorRenameDropped(op) == IF op = "rename_window" THEN "exec" ELSE "done"

\* handle_selection: the ? after each call of the multiplexer returns its
\* error, whatever the operation
AfterMuxError(op) == "done"

\* runner.run("tmux" / "zellij", ..)? fails: the operation returns the error
MuxCmdFail ==
    /\ MuxReady
    /\ trace' = Append(trace, Failed(CmdsOf(muxCall)[muxPos + 1]))
    /\ pc' = AfterMuxError(muxCall.op)
    /\ result' = (IF AfterMuxError(muxCall.op) = "done" THEN "err" ELSE result)
    /\ UNCHANGED <<argVars, ghqVars, selVars, muxVars, cwd>>

\* Keys sent only after new_window
SendsKeysAfterWindowOnly(op, cmd) == op = "new_window" /\ cmd # None

\* handle_selection: if let Some(cmd) = command { mux.send_keys(cmd)? } after
\* new_window and after new_pane
SendsKeys(op, cmd) == op \in {"new_window", "new_pane"} /\ cmd # None

\* The operation returns Ok(()); handle_selection goes on
MuxReturn ==
    /\ pc = "mux"
    /\ NeedsUtf8(muxCall) => muxCall.cfg.utf8
    /\ muxPos = Len(CmdsOf(muxCall))
    /\ IF muxCall.op = "rename_window"
       THEN /\ pc' = "exec"
            /\ UNCHANGED <<muxCall, muxPos, trace, result>>
       ELSE IF SendsKeys(muxCall.op, command)
       THEN LET c == Call(muxCall.backend, "send_keys",
                          WindowConfig(command[1], <<>>, TRUE), 0, FALSE)
            IN  /\ muxCall' = c
                /\ muxPos' = 0
                /\ trace' = Append(trace, CallEv(c))
                /\ UNCHANGED <<pc, result>>
       ELSE /\ pc' = "done"
            /\ result' = "ok"
            /\ UNCHANGED <<muxCall, muxPos, trace>>
    /\ UNCHANGED <<argVars, ghqVars, selVars, tmux, cwd>>

----------------------------------------------------------------------------
(* Specifications *)

Next ==
    \/ Run
    \/ CheckGhq
    \/ CheckFzf
    \/ GhqRoots
    \/ GhqList
    \/ Fzf
    \/ HandleSelection
    \/ SetCurrentDir
    \/ RenameWindow
    \/ ExecShell
    \/ MuxCmd
    \/ MuxCmdFail
    \/ MuxReturn

\* A whole run of the tool
Spec == Init /\ [][Next]_vars

NextSel ==
    \/ GhqRoots
    \/ GhqList
    \/ Fzf

\* select_repository alone
SpecSel == InitSel /\ [][NextSel]_vars

NextMux ==
    \/ MuxInvalidPath
    \/ MuxCmd
    \/ MuxCmdFail
    \/ MuxReturn

\* One call of TmuxClient::new_window or TmuxClient::new_pane
SpecMux == InitMux /\ [][NextMux]_vars

\* One call of ZellijClient::new_window or ZellijClient::new_pane
SpecZellij == InitZellij /\ [][NextMux]_vars

----------------------------------------------------------------------------
(* Properties of the Selector, checked under SpecSel *)

\* r is a prefix of p
IsPrefixOf(r, p) == Len(r) <= Len(p) /\ \A i \in 1..Len(r) : p[i] = r[i]

\* s without its leading '/' characters
WithoutLeadingSlashes(s) ==
    LET lead == {k \in 0..Len(s) : \A i \in 1..k : s[i] = SLASH}
        n == CHOOSE k \in lead : \A j \in lead : j <= k
    IN  SubSeq(s, n + 1, Len(s))

\* Indices of the roots that are a prefix of p
Matching(R, p) == {k \in 1..Len(R) : IsPrefixOf(R[k], p)}

\* The label the longest matching root gives
LongestRootLabel(R, p) ==
    IF Matching(R, p) = {} THEN p
    ELSE LET k == CHOOSE m \in Matching(R, p) :
                      \A j \in Matching(R, p) : Len(R[j]) <= Len(R[m])
         IN  WithoutLeadingSlashes(SubSeq(p, Len(R[k]) + 1, Len(p)))

\* The label the first matching root, in list order, gives
FirstRootLabel(R, p) ==
    IF Matching(R, p) = {} THEN p
    ELSE LET k == CHOOSE m \in Matching(R, p) : \A j \in Matching(R, p) : m <= j
         IN  WithoutLeadingSlashes(SubSeq(p, Len(R[k]) + 1, Len(p)))

\* C1 as stated: the display label of every repository path is the path with
\* the longest root that is a prefix of it removed and leading '/' stripped,
\* or the path itself when no root is a prefix of it.
C1_LongestRoot ==
    \A i \in 1..Len(items) :
        items[i].display = LongestRootLabel(roots, items[i].value)

\* C1 amended: the display label of every repository path is the path with
\* the first root of the list that is a prefix of it removed and leading '/'
\* stripped, or the path itself when no root is a prefix of it; the value is
\* the path.
C1_FirstRoot ==
    /\ Len(items) \in {0, Len(repos)}
    /\ \A i \in 1..Len(items) :
         /\ items[i].value = repos[i]
         /\ items[i].display = FirstRootLabel(roots, repos[i])

\* C1 witness: items were built for a path that two roots of different
\* length are a prefix of, and separators were stripped from its label.
C1_Witness ==
    /\ pc = "selected"
    /\ \E i \in 1..Len(items) :
         /\ \E j, k \in Matching(roots, repos[i]) : Len(roots[j]) # Len(roots[k])
         /\ Len(items[i].display) < Len(repos[i]) - 1

\* C2: when the user confirms an item in the finder, select_repository
\* returns exactly that item's full path, whatever its label.
C2_ReturnsPickedValue ==
    fzf.outcome = "accept" =>
        /\ result # "err"
        /\ selected = items[fzf.pick].value

\* fzf was started and waited for: the finder reported an outcome
FinderRan == fzf.outcome \in {"abort", "no_match", "accept"}

\* C3: when the finder ran and the user aborted it, or it had no candidate,
\* select_repository returns Ok with the empty string, never an error.
C3_AbortIsEmptyOk ==
    (FinderRan /\ (fzf.outcome = "abort" \/ items = <<>>)) =>
        /\ pc = "selected"
        /\ result = "running"
        /\ selected = <<>>
        /\ trace[Len(trace)].ok

\* C3 witness: the user aborted a finder that showed candidates.
C3_Witness ==
    /\ pc = "selected"
    /\ fzf.outcome = "abort"
    /\ items # <<>>
    /\ selected = <<>>

----------------------------------------------------------------------------
(* Properties of TmuxClient::new_window / new_pane, checked under SpecMux *)

\* The tmux commands issued so far, failed ones included
Issued == SelectSeq(trace, LAMBDA e : e.ev = "tmux")

\* The split commands issued so far with a flag in F
Splits(F) == SelectSeq(Issued, LAMBDA e : e.sub = "split-window" /\ e.flag \in F)

AnySplit == {"-h", "-v", "-hf", "-vf"}

\* The call has returned Ok(())
MuxOk == pc = "done" /\ result = "ok"

\* The panes the call created
NewPanes == {i \in 1..Len(tmux.panes) : tmux.panes[i].new}

\* C4 as stated: with pane_count < 2, new_window and new_pane issue no split
\* command at all.
C4_NoSplitBelowTwo ==
    muxCall.n < 2 => Splits(AnySplit) = <<>>

\* C4 amended: with pane_count < 2, new_window issues no split command;
\* new_pane issues its primary split (full-size, along the axis horizontal
\* selects) as its first command, once, and no secondary split.
C4_NoSecondarySplitBelowTwo ==
    muxCall.n < 2 =>
        /\ muxCall.op = "new_window" => Splits(AnySplit) = <<>>
        /\ muxCall.op = "new_pane" =>
             /\ Splits({"-h", "-v"}) = <<>>
             /\ Len(Splits(AnySplit)) <= 1
             /\ Issued # <<>> =>
                  /\ Len(Splits(AnySplit)) = 1
                  /\ Issued[1].sub = "split-window"
                  /\ Issued[1].flag = (IF muxCall.h THEN "-vf" ELSE "-hf")

\* C4 witness: new_window with a pane count of 1 has returned.
C4_Witness ==
    /\ MuxOk
    /\ muxCall.op = "new_window"
    /\ muxCall.n = 1
    /\ Len(Issued) = 1

\* C5: with pane_count >= 2, a successful new_pane has issued exactly one
\* primary and one secondary split, a successful new_window exactly one
\* split, and every pane the call created is titled cfg.name.
C5_TwoRegionsTitled ==
    (MuxOk /\ muxCall.n >= 2) =>
        /\ muxCall.op = "new_pane" =>
             /\ Len(Splits({"-hf", "-vf"})) = 1
             /\ Len(Splits({"-h", "-v"})) = 1
        /\ muxCall.op = "new_window" => Len(Splits(AnySplit)) = 1
        /\ Cardinality(NewPanes) = 2
        /\ \A i \in NewPanes : tmux.panes[i].title = muxCall.cfg.name

\* C5 witness: new_pane with a pane count above 2 has returned.
C5_Witness ==
    /\ MuxOk
    /\ muxCall.op = "new_pane"
    /\ muxCall.n > 2
    /\ Cardinality(NewPanes) = 2

\* A command with its axis transposed: left/right for up/down
Transposed(c) ==
    [c EXCEPT !.flag =
        CASE @ = "-h" -> "-v" [] @ = "-v" -> "-h"
          [] @ = "-hf" -> "-vf" [] @ = "-vf" -> "-hf"
          [] @ = "-L" -> "-U" [] @ = "-U" -> "-L"
          [] @ = "-R" -> "-D" [] @ = "-D" -> "-R"
          [] OTHER -> @]

\* The commands the same call issues with the other orientation
OtherOrientation == CmdsOf([muxCall EXCEPT !.h = ~muxCall.h])

\* C6: the commands a successful call issued and those of the same call with
\* horizontal toggled have the same length and the same kind at every
\* position, and differ exactly by the transposition of every split and
\* every directional selection; both create the same number of panes.
C6_OrientationTransposes ==
    MuxOk =>
        /\ Len(Issued) = Len(OtherOrientation)
        /\ \A i \in 1..Len(Issued) :
             /\ Issued[i].sub = OtherOrientation[i].sub
             /\ Transposed(Issued[i]) = OtherOrientation[i]
             /\ Issued[i].flag \in AnySplit \cup {"-L", "-R", "-U", "-D"}
                  => Issued[i].flag # OtherOrientation[i].flag
        /\ Cardinality(NewPanes) =
             Cardinality({i \in 1..Len(OtherOrientation) :
                            OtherOrientation[i].sub \in {"new-window", "split-window"}})

\* C6 witness: a horizontal new_pane that split twice has returned.
C6_Witness ==
    /\ MuxOk
    /\ muxCall.op = "new_pane"
    /\ muxCall.h
    /\ muxCall.n >= 2
    /\ Len(Issued) = 9

----------------------------------------------------------------------------
(* Properties of handle_selection, checked under Spec *)

\* Positions of the trace whose entry satisfies P
At(P(_)) == {i \in 1..Len(trace) : P(trace[i])}

IsMuxStep(e) == e.ev \in {"call", "tmux"}
IsSelectionStep(e) == e.ev \in {"which", "run", "fzf"}
IsChdir(e) == e.ev = "chdir"
IsExec(e) == e.ev = "exec"
IsRename(e) == IsMuxStep(e) /\ e.sub \in {"rename_window", "rename-window"}
IsCreate(e) == e.ev = "call" /\ e.sub \in {"new_window", "new_pane"}

\* The process runs inside a tmux session
InSession == env.TMUX

\* The text after the last '/' of s, trailing '/' characters set aside
RECURSIVE LastSegment(_)
LastSegment(s) ==
    IF s = <<>> THEN <<>>
    ELSE IF s[Len(s)] = SLASH THEN LastSegment(SubSeq(s, 1, Len(s) - 1))
    ELSE LET cut == {k \in 0..Len(s) : k = 0 \/ s[k] = SLASH}
             k == CHOOSE m \in cut : \A j \in cut : j <= m
         IN  SubSeq(s, k + 1, Len(s))

\* The last segment of s that is a name: trailing '/' and '.' segments set
\* aside; s itself when nothing is left or what is left ends in '..'
RECURSIVE FinalName(_, _)
FinalName(s, whole) ==
    IF LastSegment(s) = <<>> THEN whole
    ELSE IF s[Len(s)] = SLASH THEN FinalName(SubSeq(s, 1, Len(s) - 1), whole)
    ELSE IF LastSegment(s) = <<".">> THEN FinalName(SubSeq(s, 1, Len(s) - 1), whole)
    ELSE IF LastSegment(s) = <<".", ".">> THEN whole
    ELSE LastSegment(s)

\* The shell the environment asks for
PreferredShell ==
    IF env.SHELL = None THEN <<"/", "b", "i", "n", "/", "s", "h">> ELSE env.SHELL[1]

\* C7: outside a tmux session, whatever mode was requested, handle_selection
\* changes directory to the selected path and replaces the process by the
\* shell, and calls no operation of the multiplexer.
C7_OutsideSessionIsCurrentPane ==
    ~InSession =>
        /\ At(IsMuxStep) = {}
        /\ pc \notin {"mux", "rename"}
        /\ (pc = "done" /\ selected # <<>>) =>
             /\ At(IsChdir) # {}
             /\ result \in {"execd", "err"}
        /\ result = "execd" =>
             /\ cwd = selected
             /\ Len(trace) >= 2
             /\ trace[Len(trace) - 1] = Ev("chdir", "", "", <<>>, selected, 0, FALSE)
             /\ IsExec(trace[Len(trace)])

\* C7 witness: a new pane was asked for outside tmux and the shell was
\* started in the selected directory.
C7_Witness ==
    /\ ~InSession
    /\ mode.kind = "NewPane"
    /\ result = "execd"
    /\ cwd = selected

\* The run takes the CurrentPane path of handle_selection
CurrentPanePath == ~InSession \/ mode.kind = "CurrentPane"

\* C8 as stated: in the CurrentPane path the directory change and the shell
\* replacement come after every multiplexer step and every selection step;
\* no multiplexer call lies between or after them.
C8_ChdirAfterAllMux ==
    CurrentPanePath =>
        \A i \in At(IsChdir) \cup At(IsExec) :
            \A j \in At(IsMuxStep) \cup At(IsSelectionStep) : j < i

\* C8 amended: in the CurrentPane path the shell replacement comes after
\* every multiplexer step and every selection step, and the directory change
\* after every selection step; the one multiplexer operation of that path,
\* rename_window (called only inside a session), lies between the directory
\* change and the shell replacement, and nothing follows the replacement.
C8_ChdirRenameExec ==
    CurrentPanePath =>
        /\ \A i \in At(IsExec) :
             /\ \A j \in At(IsMuxStep) \cup At(IsSelectionStep) \cup At(IsChdir) : j < i
             /\ i = Len(trace)
             /\ InSession =>
                  \E j \in At(IsRename) : trace[j].ev = "tmux" /\ trace[j].ok
        /\ \A i \in At(IsChdir) :
             /\ \A j \in At(IsSelectionStep) : j < i
             /\ \A j \in At(IsMuxStep) : i < j /\ IsRename(trace[j])
        /\ At(IsMuxStep) # {} => InSession /\ At(IsChdir) # {}

\* C8 witness: inside tmux the window was renamed after the directory
\* change and the shell then replaced the process.
C8_Witness ==
    /\ InSession
    /\ mode.kind = "CurrentPane"
    /\ result = "execd"
    /\ At(IsRename) # {}

\* What C9 states of a run that reached the shell replacement, with window
\* name nm
EndsInShell(nm) ==
    /\ cwd = selected
    /\ tmux.name = nm
    /\ Cardinality(At(IsExec)) = 1
    /\ IsExec(trace[Len(trace)])
    /\ trace[Len(trace)].text = PreferredShell
    /\ \E i \in At(IsChdir) : \E j \in At(IsRename) :
         /\ i < j
         /\ trace[i].dir = selected
         /\ trace[j].text = nm

\* C9 as stated: inside a session with mode CurrentPane and a non-empty
\* selection s, the run ends with the working directory s, the window
\* renamed to the last path segment of s, then the shell replacement, once
\* and last, with SHELL or /bin/sh.
C9_RenamedToLastSegment ==
    (InSession /\ mode.kind = "CurrentPane" /\ At(IsExec) # {}) =>
        EndsInShell(LastSegment(selected))

\* C9 amended: as C9, the window being renamed to the last segment of s that
\* is a name (trailing '/' and '.' segments set aside), or to s itself when
\* s has none (s is '/' or ends in '..').
C9_RenamedToFinalName ==
    (InSession /\ mode.kind = "CurrentPane" /\ At(IsExec) # {}) =>
        /\ selected # <<>>
        /\ EndsInShell(FinalName(selected, selected))

\* C9 witness: inside tmux, CurrentPane, SHELL set: the shell replaced the
\* process in /r/o/a.
C9_Witness ==
    /\ InSession
    /\ mode.kind = "CurrentPane"
    /\ result = "execd"
    /\ env.SHELL # None
    /\ selected = <<"/", "r", "/", "o", "/", "a">>
    /\ tmux.name = <<"a">>

\* What C10 states of a run in mode NewWindow / NewPane, with window name nm
CreatesOnce(nm) ==
    LET op == IF mode.kind = "NewWindow" THEN "new_window" ELSE "new_pane"
    IN  /\ Cardinality(At(IsCreate)) <= 1
        /\ \A i \in At(IsCreate) :
             trace[i] = Ev("call", op, "tmux", nm, selected, mode.count, mode.horizontal)
        /\ (pc = "mux" \/ (pc = "done" /\ selected # <<>>)) =>
             Cardinality(At(IsCreate)) = 1
        /\ cwd = HomeDir
        /\ At(IsChdir) = {}
        /\ At(IsExec) = {}
        /\ result # "execd"

\* C10 as stated: inside a session, mode NewWindow calls new_window exactly
\* once with (last path segment of the selection, selection, count,
\* horizontal), mode NewPane new_pane likewise; the other creating operation
\* is never called, the working directory is unchanged, no shell replacement.
C10_CreateWithLastSegment ==
    (InSession /\ mode.kind \in {"NewWindow", "NewPane"}) =>
        CreatesOnce(LastSegment(selected))

\* C10 amended: as C10, the name being the last segment of the selection
\* that is a name, or the selection itself when it has none.
C10_CreateWithFinalName ==
    (InSession /\ mode.kind \in {"NewWindow", "NewPane"}) =>
        CreatesOnce(FinalName(selected, selected))

\* C10 witness: inside tmux, new_pane was called for a selection and
\* returned.
C10_Witness ==
    /\ InSession
    /\ mode.kind = "NewPane"
    /\ pc = "done"
    /\ result = "ok"
    /\ selected # <<>>
    /\ Cardinality(At(IsCreate)) = 1

----------------------------------------------------------------------------
(* Properties of run and run_with_deps, checked under Spec *)

\* select_repository has returned Ok
SelectionReturned == \E i \in 1..Len(trace) : trace[i].ev = "fzf" /\ trace[i].ok

\* C11: when select_repository returned the empty string (no repository, or
\* the user cancelled), the run calls no multiplexer operation, changes no
\* directory, replaces no process image, and ends with Ok(()) (exit status
\* 0), whatever mode and command were requested.
C11_EmptySelectionEndsOk ==
    (SelectionReturned /\ selected = <<>>) =>
        /\ At(IsMuxStep) = {}
        /\ At(IsChdir) = {}
        /\ At(IsExec) = {}
        /\ trace[Len(trace)].ev = "fzf"
        /\ cwd = HomeDir
        /\ tmux = start
        /\ pc \in {"selected", "done"}
        /\ result = (IF pc = "done" THEN "ok" ELSE "running")

\* C11 witness: inside tmux, with -w and -c, ghq listed no repository and
\* the run ended with Ok(()).
C11_Witness ==
    /\ InSession
    /\ mode.kind = "NewWindow"
    /\ command # None
    /\ SelectionReturned
    /\ repos = <<>>
    /\ selected = <<>>
    /\ pc = "done"
    /\ result = "ok"

\* -c is given together with a pane count of 2
CommandWithTwoPanes == args.command # None /\ args.new_pane = Some(2)

\* C12: when -c is given together with a pane count of 2, with or without
\* -w, the run fails before any external effect: no presence check, no ghq
\* call, no finder, no multiplexer call or command, no directory change, no
\* shell replacement; nothing but the error return happens.
C12_RejectedBeforeAnyCommand ==
    CommandWithTwoPanes =>
        /\ trace = <<>>
        /\ cwd = HomeDir
        /\ fzf = NoFzf
        /\ tmux = start
        /\ pc \in {"run", "done"}
        /\ result = (IF pc = "done" THEN "err" ELSE "running")

\* C12 witness: -w -p 2 -c inside tmux was rejected.
C12_Witness ==
    /\ CommandWithTwoPanes
    /\ args.new_window
    /\ InSession
    /\ pc = "done"
    /\ result = "err"
    /\ trace = <<>>

IsSendKeys(e) == e.ev = "call" /\ e.sub = "send_keys"

\* The run is inside a session in mode NewWindow or NewPane
CreatingMode == InSession /\ mode.kind \in {"NewWindow", "NewPane"}

\* Entry j of the trace is a creating call all of whose commands (one for
\* new_window without a split, three for new_pane without a secondary
\* split) succeeded, and entry i comes right after them
ReturnedBefore(j, i) ==
    /\ IsCreate(trace[j])
    /\ j < i
    /\ \A k \in (j + 1)..(i - 1) : trace[k].ev = "tmux" /\ trace[k].ok
    /\ i - j - 1 = (IF trace[j].sub = "new_window" THEN 1 ELSE 3)
    /\ trace[i - 1].sub = (IF trace[j].sub = "new_window"
                           THEN "new-window" ELSE "select-layout")

\* C13: inside a session in mode NewWindow or NewPane, send_keys is called
\* at most once, with the text of -c, and only right after new_window /
\* new_pane issued all its commands successfully; it has been called exactly
\* once when the run ends with Ok(()) and -c was given; it is never called
\* when the creating operation failed or when no -c was given.
C13_SendKeysOnceAfterCreate ==
    CreatingMode =>
        /\ Cardinality(At(IsSendKeys)) <= 1
        /\ args.command = None => At(IsSendKeys) = {}
        /\ \A i \in At(IsSendKeys) :
             /\ trace[i].text = args.command[1]
             /\ \E j \in At(IsCreate) : ReturnedBefore(j, i)
        /\ (\E k \in 1..Len(trace) :
               trace[k].ev = "tmux" /\ ~trace[k].ok /\ trace[k].sub # "send-keys")
             => At(IsSendKeys) = {}
        /\ (args.command # None /\ pc = "done" /\ result = "ok" /\ selected # <<>>)
             => /\ Cardinality(At(IsSendKeys)) = 1
                /\ trace[Len(trace)] = Cmd("send-keys", "Enter", args.command[1], <<>>)
                /\ tmux.panes[tmux.active].keys = <<args.command[1]>>

\* C13 witness: inside tmux, -p with -c: the pane was created and the
\* command was typed into it.
C13_Witness ==
    /\ InSession
    /\ mode.kind = "NewPane"
    /\ args.command # None
    /\ pc = "done"
    /\ result = "ok"
    /\ Cardinality(At(IsSendKeys)) = 1
    /\ tmux.panes[tmux.active].new
    /\ tmux.panes[tmux.active].keys = <<args.command[1]>>

\* run has derived the mode from the flags
ModeDerived == pc # "run" /\ ~(pc = "done" /\ trace = <<>>)

\* A new-window flag, current (-w) or deprecated (-n), is set
WindowFlag == args.new_window \/ args.deprecated_new_window

\* The flags with -w and -n exchanged
FlagsExchanged ==
    [args EXCEPT !.new_window = args.deprecated_new_window,
                 !.deprecated_new_window = args.new_window]

\* C14: the mode derived from the flags is NewWindow{c, horizontal flag}
\* for pane count c with a new-window flag, NewPane{c, horizontal flag} for
\* pane count c without one, NewWindow{0, false} for a new-window flag
\* without pane count, CurrentPane otherwise; -n gives the mode -w gives.
C14_ModeTable ==
    ModeDerived =>
        /\ (args.new_pane # None /\ WindowFlag) =>
             /\ mode.kind = "NewWindow"
             /\ mode.count = args.new_pane[1]
             /\ mode.horizontal = args.horizontal
        /\ (args.new_pane # None /\ ~WindowFlag) =>
             /\ mode.kind = "NewPane"
             /\ mode.count = args.new_pane[1]
             /\ mode.horizontal = args.horizontal
        /\ (args.new_pane = None /\ WindowFlag) =>
             /\ mode.kind = "NewWindow"
             /\ mode.count = 0
             /\ mode.horizontal = FALSE
        /\ (args.new_pane = None /\ ~WindowFlag) => mode = CurrentPane
        /\ mode = tmux_mode(FlagsExchanged)

\* C14 witness: -n -p 2 -H gave NewWindow{2, true}.
C14_Witness ==
    /\ ModeDerived
    /\ args.deprecated_new_window
    /\ ~args.new_window
    /\ args.new_pane = Some(2)
    /\ args.horizontal
    /\ mode = NewWindow(2, TRUE)

----------------------------------------------------------------------------
(* Properties of ZellijClient against TmuxClient, checked under SpecZellij *)

RECURSIVE Finals(_, _)
\* The states tmux may end in when it carries out cmds, in order, from a
\* state of T
Finals(T, cmds) ==
    IF cmds = <<>> THEN T
    ELSE Finals(UNION {TmuxApply(t, Head(cmds)) : t \in T}, Tail(cmds))

\* The states the same call on TmuxClient ends in, from the same window
TmuxFinals == Finals({start}, CmdsOf([muxCall EXCEPT !.backend = "tmux"]))

\* The panes a call created, in the order of their creation
Created(t) == SelectSeq(t.panes, LAMBDA p : p.new)

\* Where pane q lies with respect to pane p
Side(p, q) ==
    IF q.x >= p.x + p.w THEN "right"
    ELSE IF q.y >= p.y + p.h THEN "below"
    ELSE IF p.x >= q.x + q.w THEN "left"
    ELSE IF p.y >= q.y + q.h THEN "above"
    ELSE "over"

\* What can be observed of the layout t a call left: how many panes it
\* created, on which side of the pane focused before (or of the pane
\* created before it) each one lies, their titles and directories, and
\* which of them has the focus (0: none of them)
Observed(t) ==
    LET c == Created(t)
        was == start.active
        idx == {k \in 1..Len(c) : c[k] = t.panes[t.active]}
    IN  [created |-> Len(c),
         sides |-> [k \in 1..Len(c) |->
                      IF k > 1 THEN Side(c[k - 1], c[k])
                      ELSE IF was \in 1..Len(t.panes) /\ ~t.panes[was].new
                      THEN Side(t.panes[was], c[1])
                      ELSE "alone"],
         titles |-> [k \in 1..Len(c) |-> c[k].title],
         dirs |-> [k \in 1..Len(c) |-> c[k].dir],
         focus |-> IF idx = {} THEN 0 ELSE CHOOSE k \in idx : TRUE]

\* C15: when new_window / new_pane of ZellijClient has returned Ok(()), the
\* layout it left is the one TmuxClient leaves for the same call from the
\* same window: as many panes created, on the same sides in the same order,
\* every created pane titled cfg.name and rooted at cfg.start_dir, the focus
\* on the same (first created) pane.
C15_ZellijLayoutIsTmuxLayout ==
    MuxOk =>
        /\ \E u \in TmuxFinals : Observed(u) = Observed(tmux)
        /\ \A k \in 1..Len(Created(tmux)) :
             /\ Created(tmux)[k].title = muxCall.cfg.name
             /\ Created(tmux)[k].dir = muxCall.cfg.start_dir
        /\ Observed(tmux).focus = 1

----------------------------------------------------------------------------
(* Properties of error handling, checked under Spec *)

\* Positions of the trace whose effect failed
FailedAt == {i \in 1..Len(trace) : ~trace[i].ok}

\* C16: an external command that failed is the last effect of the run:
\* the operation issues no further command of its sequence, none is run
\* again, and the run has ended with the error; this holds of every
\* command of new_window, new_pane, rename_window and send_keys.
C16_FailureEndsRun ==
    \A i \in FailedAt :
        /\ i = Len(trace)
        /\ pc = "done"
        /\ result = "err"
        /\ trace[i].ev = "tmux" =>
             /\ muxPos < Len(CmdsOf(muxCall))
             /\ trace[i] = Failed(CmdsOf(muxCall)[muxPos + 1])
             /\ \A k \in 1..muxPos : trace[i - k] = CmdsOf(muxCall)[muxPos + 1 - k]

\* C16 witness: inside tmux, new_pane with two panes failed at its fifth
\* command, after four that succeeded.
C16_Witness ==
    /\ InSession
    /\ muxCall.op = "new_pane"
    /\ muxPos = 4
    /\ result = "err"
    /\ ~trace[Len(trace)].ok
    /\ trace[Len(trace)].sub = "select-pane"

----------------------------------------------------------------------------
(* Properties of TmuxClient's command sequences, checked under SpecMux *)

\* The axis a split-window flag splits along
Axis(flag) == IF flag \in {"-h", "-hf"} THEN "left-right" ELSE "top-bottom"

\* The split new_window issues for the orientation of the call in progress
WindowSplit ==
    SelectSeq(TmuxNewWindow(muxCall.cfg, 2, muxCall.h),
              LAMBDA c : c.sub = "split-window")

\* C17: for the same horizontal, new_window splits top/bottom when it is
\* false and left/right when it is true; the primary split of new_pane is
\* along the other axis, and its secondary split (pane_count >= 2) along
\* the other axis than its primary; the panes lie accordingly.
C17_AxesPerpendicular ==
    LET all == Splits(AnySplit)
        windowAxis == IF muxCall.h THEN "left-right" ELSE "top-bottom"
        paneSide == IF muxCall.h THEN "below" ELSE "right"
        subSide == IF muxCall.h THEN "right" ELSE "below"
    IN  /\ Len(WindowSplit) = 1
        /\ Axis(WindowSplit[1].flag) = windowAxis
        /\ muxCall.op = "new_window" =>
             /\ \A i \in 1..Len(all) : all[i].flag = WindowSplit[1].flag
             /\ (MuxOk /\ muxCall.n >= 2) =>
                  Side(Created(tmux)[1], Created(tmux)[2]) = subSide
        /\ muxCall.op = "new_pane" =>
             /\ Len(all) >= 1 => Axis(all[1].flag) # Axis(WindowSplit[1].flag)
             /\ Len(all) >= 2 => Axis(all[2].flag) # Axis(all[1].flag)
             /\ MuxOk =>
                  /\ Len(all) = (IF muxCall.n >= 2 THEN 2 ELSE 1)
                  /\ Side(tmux.panes[start.active], Created(tmux)[1]) = paneSide
                  /\ muxCall.n >= 2 =>
                       Side(Created(tmux)[1], Created(tmux)[2]) = subSide

\* C17 witness: new_pane with two panes, not horizontal, has returned: the
\* new panes are right of the old one, one below the other.
C17_Witness ==
    /\ MuxOk
    /\ muxCall.op = "new_pane"
    /\ ~muxCall.h
    /\ muxCall.n >= 2
    /\ Len(Splits(AnySplit)) = 2
    /\ Side(Created(tmux)[1], Created(tmux)[2]) = "below"

\* The commands C18 lists for new_window with a split
WindowWithSplit(cfg, h) ==
    LET first == IF h THEN "-L" ELSE "-U"
        second == IF h THEN "-R" ELSE "-D"
    IN  << Cmd("new-window", "-n", cfg.name, cfg.start_dir),
           Cmd("split-window", IF h THEN "-h" ELSE "-v", <<>>, cfg.start_dir),
           Cmd("select-pane", first, <<>>, <<>>),
           Cmd("select-pane", "-T", cfg.name, <<>>),
           Cmd("select-pane", second, <<>>, <<>>),
           Cmd("select-pane", "-T", cfg.name, <<>>),
           Cmd("select-pane", first, <<>>, <<>>),
           Cmd("select-layout", "-E", <<>>, <<>>) >>

\* The commands that succeeded so far
Succeeded == SelectSeq(Issued, LAMBDA e : e.ok)

\* C18: new_window with pane_count >= 2 issues, in this order: new-window
\* (named cfg.name, in cfg.start_dir), one split in cfg.start_dir, select
\* first pane, title, select second pane, title, select first pane,
\* equalize; when it has returned the focus is on the first (original) pane
\* of the window. With pane_count 0 new-window is the only command.
C18_NewWindowOrder ==
    muxCall.op = "new_window" =>
        /\ muxCall.n >= 2 =>
             /\ Len(Succeeded) <= 8
             /\ Succeeded = SubSeq(WindowWithSplit(muxCall.cfg, muxCall.h),
                                   1, Len(Succeeded))
             /\ MuxOk =>
                  /\ Len(Succeeded) = 8
                  /\ tmux.active = 1
                  /\ Len(tmux.panes) = 2
                  /\ tmux.even
        /\ muxCall.n = 0 =>
             /\ Len(Issued) <= 1
             /\ \A i \in 1..Len(Issued) : Issued[i].sub = "new-window"
             /\ MuxOk =>
                  Issued = << Cmd("new-window", "-n", muxCall.cfg.name,
                                  muxCall.cfg.start_dir) >>

\* C18 witness: a horizontal new_window with two panes has returned.
C18_Witness ==
    /\ MuxOk
    /\ muxCall.op = "new_window"
    /\ muxCall.n = 2
    /\ muxCall.h
    /\ Len(Issued) = 8
    /\ tmux.active = 1

\* The positions of the equalize command among the commands issued
Equalized == {i \in 1..Len(Issued) : Issued[i].sub = "select-layout"}

\* C19: new_pane, for every pane_count and orientation, issues select-layout
\* -E only as the last command of its sequence, after every split, title
\* and focus move; when it has returned it issued it exactly once, and with
\* pane_count >= 2 the command before it moved the focus back to the first
\* of the two new panes, which has the focus at the end.
C19_NewPaneEndsEqualized ==
    muxCall.op = "new_pane" =>
        LET last == IF muxCall.n >= 2 THEN 9 ELSE 3
        IN  /\ Equalized \subseteq {last}
            /\ Len(Issued) <= last
            /\ \A i \in 1..Len(Issued) :
                 i < last => Issued[i].sub \in {"split-window", "select-pane"}
            /\ MuxOk =>
                 /\ Equalized = {Len(Issued)}
                 /\ Issued[Len(Issued)] = Cmd("select-layout", "-E", <<>>, <<>>)
                 /\ tmux.even
                 /\ tmux.panes[tmux.active] = Created(tmux)[1]
                 /\ muxCall.n >= 2 =>
                      /\ Len(Created(tmux)) = 2
                      /\ Issued[Len(Issued) - 1] =
                           Cmd("select-pane", IF muxCall.h THEN "-L" ELSE "-U",
                               <<>>, <<>>)

\* C19 witness: new_pane with one pane has returned, equalized.
C19_Witness ==
    /\ MuxOk
    /\ muxCall.op = "new_pane"
    /\ muxCall.n = 1
    /\ Len(Issued) = 3
    /\ Issued[3].sub = "select-layout"

----------------------------------------------------------------------------
(* Properties of the CurrentPane arm on failure, checked under Spec *)

\* The rename-window command was issued and failed
RenameFailed ==
    \E i \in 1..Len(trace) :
        trace[i].ev = "tmux" /\ trace[i].sub = "rename-window" /\ ~trace[i].ok

\* C20: in mode CurrentPane inside a session, when rename_window failed the
\* run has ended with that error and the shell replacement was never
\* attempted, while the working directory is the selected path, changed
\* before the rename and not restored; the window keeps its name.
C20_RenameFailureKeepsChdir ==
    RenameFailed =>
        /\ InSession
        /\ mode = CurrentPane
        /\ pc = "done"
        /\ result = "err"
        /\ At(IsExec) = {}
        /\ ~trace[Len(trace)].ok
        /\ trace[Len(trace)].sub = "rename-window"
        /\ \E i \in At(IsChdir) : trace[i].ok /\ trace[i].dir = selected
        /\ cwd = selected
        /\ cwd # HomeDir
        /\ tmux = start

\* C20 witness: inside tmux, the directory was changed to /r/o/a and the
\* rename then failed.
C20_Witness ==
    /\ RenameFailed
    /\ InSession
    /\ result = "err"
    /\ cwd = <<"/", "r", "/", "o", "/", "a">>

----------------------------------------------------------------------------
(* Properties of the command text in the CurrentPane arm, checked under Spec *)

\* The effective mode is CurrentPane: no -w / -n / -p, or no session
EffectiveCurrentPane == ~InSession \/ tmux_mode(args).kind = "CurrentPane"

\* Nothing was typed into any pane, by a call of send_keys or otherwise
NothingInjected ==
    /\ At(IsSendKeys) = {}
    /\ \A i \in 1..Len(trace) : trace[i].sub # "send-keys"
    /\ \A i \in 1..Len(tmux.panes) : tmux.panes[i].keys = <<>>

\* The run failed, if it did, at an external effect that failed
ErrorsAreEffects == result = "err" => (trace # <<>> /\ ~trace[Len(trace)].ok)

\* C21 as stated: whenever the effective mode is CurrentPane, send_keys is
\* never called, and a command given with -c is dropped without an error
\* of its own, whatever mode was requested.
C21_CommandSilentlyDropped ==
    EffectiveCurrentPane =>
        /\ NothingInjected
        /\ args.command # None => ErrorsAreEffects

\* C21 amended: whenever the effective mode is CurrentPane, send_keys is
\* never called; a command given with -c is dropped without an error of
\* its own unless a pane count of 2 was given with it, in which case the
\* run is rejected before any effect.
C21_CommandDroppedUnlessRejected ==
    EffectiveCurrentPane =>
        /\ NothingInjected
        /\ (args.command # None /\ ~CommandWithTwoPanes) => ErrorsAreEffects
        /\ (CommandWithTwoPanes /\ pc = "done") => (result = "err" /\ trace = <<>>)

\* C21 witness: outside tmux, -w with -c: the shell replaced the process
\* in the selected directory and nothing was typed anywhere.
C21_Witness ==
    /\ ~InSession
    /\ args.new_window
    /\ args.command # None
    /\ result = "execd"
    /\ cwd = selected
    /\ NothingInjected

====
